---- MODULE Spec2Model ----
(***************************************************************************)
(* TLV stream codec (package tlv, stream.go): NewStream, Encode, Decode,   *)
(* DecodeWithParsedTypes, decode and getRecord.                            *)
(*                                                                         *)
(* The reader is a byte sequence.  Type and length are uint64 in the       *)
(* source; here an unsigned integer has UintBits = 24 bits, so that        *)
(* typ + 1 wraps to 0 at MaxUint64 exactly as in the source, and the four  *)
(* varint tiers carry 0, 1, 2 and 3 payload bytes instead of 0, 2, 4, 8.   *)
(***************************************************************************)
EXTENDS Integers, Sequences, FiniteSets, TLC

(* ------------------------------ bounds --------------------------------- *)
\* longest record list handed to NewStream
MaxRecords == 2
\* most records put on the wire of one call
MaxWireRecs == 2

(* ----------------------------- constants ------------------------------- *)
UintBits == 24
UintMod == 2 ^ UintBits
MaxUint64 == UintMod - 1
MaxRecordSize == 65535

(* ------------------------------ errors --------------------------------- *)
Err(n) == [name |-> n, typ |-> 0]
nil == Err("nil")
ErrStreamNotCanonical == Err("ErrStreamNotCanonical")
ErrRecordTooLarge == Err("ErrRecordTooLarge")
ErrUnknownRequiredType(t) == [name |-> "ErrUnknownRequiredType", typ |-> t]
\* a call through a nil func value: the goroutine panics, nothing is returned
PanicNilFunc == Err("panic: nil func")
EOF == Err("io.EOF")
ErrUnexpectedEOF == Err("io.ErrUnexpectedEOF")
ErrVarIntNotCanonical == Err("ErrVarIntNotCanonical")

(* ------------------------------ TypeSet -------------------------------- *)
\* a Go map value: the nil map, or an allocated map with its keys
NilTypeSet == [isNil |-> TRUE, elems |-> {}]
MakeTypeSet == [isNil |-> FALSE, elems |-> {}]

\* the nil *Type of firstFail
NoFail == -1

(* --------------------------- varint codec ------------------------------ *)
\* smallest value each discriminant may carry
TierMin(d) == IF d = 253 THEN 253 ELSE IF d = 254 THEN 256 ELSE 65536

RECURSIVE BigEndian(_)
BigEndian(bs) ==
    IF bs = << >> THEN 0
    ELSE BigEndian(SubSeq(bs, 1, Len(bs) - 1)) * 256 + bs[Len(bs)]

WriteVarInt(v) ==
    IF v < 253 THEN << v >>
    ELSE IF v < 256 THEN << 253, v >>
    ELSE IF v < 65536 THEN << 254, v \div 256, v % 256 >>
    ELSE << 255, v \div 65536, (v \div 256) % 256, v % 256 >>

\* reads one varint from the front of r: the value, the error, what is left
ReadVarInt(r) ==
    IF r = << >> THEN [val |-> 0, err |-> EOF, rest |-> r]
    ELSE LET d == r[1]
             body == Tail(r)
             n == d - 252
         IN  IF d < 253 THEN [val |-> d, err |-> nil, rest |-> body]
             ELSE IF Len(body) < n
                  THEN [val |-> 0, err |-> ErrUnexpectedEOF, rest |-> << >>]
                  ELSE LET v == BigEndian(SubSeq(body, 1, n))
                           rest == SubSeq(body, n + 1, Len(body))
                       IN  IF v < TierMin(d)
                           THEN [val |-> 0, err |-> ErrVarIntNotCanonical,
                                 rest |-> rest]
                           ELSE [val |-> v, err |-> nil, rest |-> rest]

(* ------------------------------ records -------------------------------- *)
\* the types used for records and on the wire
TypeVals == {0, 1, 2, MaxUint64}

\* the decoder a record of each type is built with: type 2 is a presence
\* marker decoded by DNOP, the others carry a byte slice
DecoderOf(t) == IF t = 2 THEN "DNOP" ELSE "DVarBytes"

\* the encoder a record of each type is built with
EncoderOf(t) == IF t = 2 THEN "ENOP" ELSE "EVarBytes"

MakeRecord(t) == [typ |-> t, decoder |-> DecoderOf(t), encoder |-> EncoderOf(t)]

RECURSIVE SeqsUpTo(_, _)
SeqsUpTo(S, n) ==
    IF n = 0 THEN {<< >>}
    ELSE LET shorter == SeqsUpTo(S, n - 1)
         IN  shorter \cup {Append(q, x) : q \in shorter, x \in S}

\* the record lists a caller may hand to NewStream, in any order
RecordLists == SeqsUpTo({MakeRecord(t) : t \in TypeVals}, MaxRecords)

(* ----------------------------- NewStream ------------------------------- *)
\* the scan of NewStream from record i on, with its min and overflow
RECURSIVE NewStreamScan(_, _, _, _)
NewStreamScan(recs, i, min, overflow) ==
    IF i > Len(recs) THEN nil
    ELSE IF overflow \/ recs[i].typ < min THEN ErrStreamNotCanonical
    ELSE NewStreamScan(recs, i + 1, (recs[i].typ + 1) % UintMod,
                       overflow \/ recs[i].typ = MaxUint64)

\* the scan without the overflow flag: min alone, which wraps to 0
RECURSIVE NewStreamScanNoOverflow(_, _, _)
NewStreamScanNoOverflow(recs, i, min) ==
    IF i > Len(recs) THEN nil
    ELSE IF recs[i].typ < min THEN ErrStreamNotCanonical
    ELSE NewStreamScanNoOverflow(recs, i + 1, (recs[i].typ + 1) % UintMod)

NewStreamErrNoOverflow(recs) == NewStreamScanNoOverflow(recs, 1, 0)

NewStreamErr(recs) == NewStreamScan(recs, 1, 0, FALSE)

(* ------------------------------ reader --------------------------------- *)
\* io.ReadFull(r, buf) with len(buf) = n: the bytes read, the error, the rest
ReadFull(r, n) ==
    IF n = 0 THEN [data |-> << >>, err |-> nil, rest |-> r]
    ELSE IF r = << >> THEN [data |-> << >>, err |-> EOF, rest |-> r]
    ELSE IF Len(r) < n THEN [data |-> r, err |-> ErrUnexpectedEOF, rest |-> << >>]
    ELSE [data |-> SubSeq(r, 1, n), err |-> nil, rest |-> SubSeq(r, n + 1, Len(r))]

\* a copy that stops one byte short of n
CopyNOneShort(r, n) ==
    IF n = 0 THEN [err |-> nil, rest |-> r]
    ELSE IF Len(r) < n THEN [err |-> EOF, rest |-> << >>]
    ELSE [err |-> nil, rest |-> SubSeq(r, n, Len(r))]

\* io.CopyN(ioutil.Discard, r, n): a short source is reported as io.EOF
CopyN(r, n) ==
    IF Len(r) < n THEN [err |-> EOF, rest |-> << >>]
    ELSE [err |-> nil, rest |-> SubSeq(r, n + 1, Len(r))]

(* ----------------------------- decoders -------------------------------- *)
\* a bound value: a byte slice of length len whose first bytes are data
\* (the rest, if any, are the zeroes of make([]byte, l))
EmptyValue == [len |-> 0, data |-> << >>]

\* DVarBytes allocates l bytes and fills them with io.ReadFull
DVarBytes(r, val, l) ==
    LET rd == ReadFull(r, l)
    IN  [err |-> rd.err, rest |-> rd.rest, value |-> [len |-> l, data |-> rd.data]]

\* DNOP reads nothing, changes nothing and reports no error
DNOP(r, val, l) == [err |-> nil, rest |-> r, value |-> val]

RunDecoder(decoder, r, val, l) ==
    IF decoder = "nil" THEN [err |-> PanicNilFunc, rest |-> r, value |-> val]
    ELSE IF decoder = "DNOP" THEN DNOP(r, val, l)
    ELSE DVarBytes(r, val, l)

(* ----------------------------- getRecord ------------------------------- *)
\* getRecord stepping over the record it stopped at when the type is not found
RECURSIVE getRecordSkips(_, _, _)
getRecordSkips(records, typ, idx) ==
    IF idx < Len(records)
    THEN LET record == records[idx + 1]
         IN  IF record.typ = typ
             THEN [rec |-> idx + 1, newIdx |-> idx + 1, ok |-> TRUE]
             ELSE IF record.typ < typ
             THEN getRecordSkips(records, typ, idx + 1)
             ELSE [rec |-> 0, newIdx |-> idx + 1, ok |-> FALSE]
    ELSE [rec |-> 0, newIdx |-> idx, ok |-> FALSE]

\* getRecord taking the first record whose type is not below the target
RECURSIVE getRecordNearest(_, _, _)
getRecordNearest(records, typ, idx) ==
    IF idx < Len(records)
    THEN LET record == records[idx + 1]
         IN  IF record.typ >= typ
             THEN [rec |-> idx + 1, newIdx |-> idx + 1, ok |-> TRUE]
             ELSE getRecordNearest(records, typ, idx + 1)
    ELSE [rec |-> 0, newIdx |-> idx, ok |-> FALSE]

\* idx counts from 0 as in the source; records[idx + 1] is s.records[idx]
RECURSIVE getRecord(_, _, _)
getRecord(records, typ, idx) ==
    IF idx < Len(records)
    THEN LET record == records[idx + 1]
         IN  IF record.typ = typ
             THEN [rec |-> idx + 1, newIdx |-> idx + 1, ok |-> TRUE]
             ELSE IF record.typ < typ
             THEN getRecord(records, typ, idx + 1)
             ELSE [rec |-> 0, newIdx |-> idx, ok |-> FALSE]
    ELSE [rec |-> 0, newIdx |-> idx, ok |-> FALSE]

(* ------------------------- the frame of decode ------------------------- *)
\* the locals of one decode call, the reader r, the values the records
\* point to, and what the call returned.  log and afterLen observe the
\* call: log lists the decoder invocations and discards in order, each with
\* whether it returned without error; afterLen is the number of unread
\* bytes right after the last length was read.
IdleFrame(values) ==
    [pc |-> "idle", r |-> << >>, parsedTypes |-> NilTypeSet,
     typ |-> 0, min |-> 0, firstFail |-> NoFail, recordIdx |-> 0,
     overflow |-> FALSE, length |-> 0,
     retSet |-> NilTypeSet, retErr |-> nil,
     values |-> values, log |-> << >>, afterLen |-> 0]

\* entry of decode(r, parsedTypes): every local starts at its zero value
decodeEntry(values, r, parsedTypes) ==
    [IdleFrame(values) EXCEPT !.pc = "type", !.r = r,
                              !.parsedTypes = parsedTypes]

\* a return of decode; a panic leaves the call without returning
Return(f, set, err) ==
    [f EXCEPT !.pc = IF err = PanicNilFunc THEN "panic" ELSE "done",
              !.retSet = set, !.retErr = err]

\* readType without the overflow flag: the order is checked against min alone
readTypeNoOverflow(f) ==
    LET v == ReadVarInt(f.r)
        g == [f EXCEPT !.r = v.rest]
    IN  IF v.err = EOF
        THEN IF f.firstFail = NoFail
             THEN Return(g, f.parsedTypes, nil)
             ELSE Return(g, f.parsedTypes, ErrUnknownRequiredType(f.firstFail))
        ELSE IF v.err # nil THEN Return(g, NilTypeSet, v.err)
        ELSE IF v.val < f.min
             THEN Return([g EXCEPT !.typ = v.val], NilTypeSet, ErrStreamNotCanonical)
             ELSE [g EXCEPT !.typ = v.val, !.pc = "length"]

\* readType returning success at the clean end whatever was deferred
readTypeForgetsFail(f) ==
    LET v == ReadVarInt(f.r)
        g == [f EXCEPT !.r = v.rest]
    IN  IF v.err = EOF THEN Return(g, f.parsedTypes, nil)
        ELSE IF v.err # nil THEN Return(g, NilTypeSet, v.err)
        ELSE IF f.overflow \/ v.val < f.min
             THEN Return([g EXCEPT !.typ = v.val], NilTypeSet, ErrStreamNotCanonical)
             ELSE [g EXCEPT !.typ = v.val, !.pc = "length"]

\* readType going round the loop again, with nothing read, when the input
\* ends after the maximum type
readTypeSpinsAfterOverflow(f) ==
    LET v == ReadVarInt(f.r)
        g == [f EXCEPT !.r = v.rest]
    IN  IF v.err = EOF
        THEN IF f.overflow THEN f
             ELSE IF f.firstFail = NoFail
             THEN Return(g, f.parsedTypes, nil)
             ELSE Return(g, f.parsedTypes, ErrUnknownRequiredType(f.firstFail))
        ELSE IF v.err # nil THEN Return(g, NilTypeSet, v.err)
        ELSE IF f.overflow \/ v.val < f.min
             THEN Return([g EXCEPT !.typ = v.val], NilTypeSet, ErrStreamNotCanonical)
             ELSE [g EXCEPT !.typ = v.val, !.pc = "length"]

\* lines 173-199: read the type, stop at a clean end, check the order
readType(f) ==
    LET v == ReadVarInt(f.r)
        g == [f EXCEPT !.r = v.rest]
    IN  IF v.err = EOF
        THEN IF f.firstFail = NoFail
             THEN Return(g, f.parsedTypes, nil)
             ELSE Return(g, f.parsedTypes, ErrUnknownRequiredType(f.firstFail))
        ELSE IF v.err # nil THEN Return(g, NilTypeSet, v.err)
        ELSE IF f.overflow \/ v.val < f.min
             THEN Return([g EXCEPT !.typ = v.val], NilTypeSet, ErrStreamNotCanonical)
             ELSE [g EXCEPT !.typ = v.val, !.pc = "length"]

\* readLength without the limit on the declared length
readLengthNoLimit(f) ==
    LET v == ReadVarInt(f.r)
        g == [f EXCEPT !.r = v.rest, !.afterLen = Len(v.rest)]
    IN  IF v.err = EOF THEN Return(g, NilTypeSet, ErrUnexpectedEOF)
        ELSE IF v.err # nil THEN Return(g, NilTypeSet, v.err)
        ELSE [g EXCEPT !.length = v.val, !.pc = "value"]

\* readLength returning the set built so far along with its errors
readLengthKeepsSet(f) ==
    LET v == ReadVarInt(f.r)
        g == [f EXCEPT !.r = v.rest, !.afterLen = Len(v.rest)]
    IN  IF v.err = EOF THEN Return(g, f.parsedTypes, ErrUnexpectedEOF)
        ELSE IF v.err # nil THEN Return(g, f.parsedTypes, v.err)
        ELSE IF v.val > MaxRecordSize
             THEN Return([g EXCEPT !.length = v.val], f.parsedTypes, ErrRecordTooLarge)
             ELSE [g EXCEPT !.length = v.val, !.pc = "value"]

\* lines 201-221: read the length, bound it by MaxRecordSize
readLength(f) ==
    LET v == ReadVarInt(f.r)
        g == [f EXCEPT !.r = v.rest, !.afterLen = Len(v.rest)]
    IN  IF v.err = EOF THEN Return(g, NilTypeSet, ErrUnexpectedEOF)
        ELSE IF v.err # nil THEN Return(g, NilTypeSet, v.err)
        ELSE IF v.val > MaxRecordSize
             THEN Return([g EXCEPT !.length = v.val], NilTypeSet, ErrRecordTooLarge)
             ELSE [g EXCEPT !.length = v.val, !.pc = "value"]

\* endOfIteration without lines 302-304: min alone bounds the next type
endOfIterationNoOverflow(f, newIdx) ==
    [f EXCEPT !.parsedTypes = IF f.parsedTypes.isNil THEN f.parsedTypes
                              ELSE [f.parsedTypes EXCEPT !.elems = @ \cup {f.typ}],
              !.recordIdx = newIdx,
              !.min = (f.typ + 1) % UintMod,
              !.pc = "type"]

\* endOfIteration going back to the top of the loop as soon as a tracked
\* type is recorded
endOfIterationTrackedContinue(f, newIdx) ==
    IF f.parsedTypes.isNil
    THEN [f EXCEPT !.recordIdx = newIdx,
                   !.overflow = f.overflow \/ f.typ = MaxUint64,
                   !.min = (f.typ + 1) % UintMod,
                   !.pc = "type"]
    ELSE [f EXCEPT !.parsedTypes = [f.parsedTypes EXCEPT !.elems = @ \cup {f.typ}],
                   !.pc = "type"]

\* lines 289-307: record the type, move the cursor, set the next bound
endOfIteration(f, newIdx) ==
    [f EXCEPT !.parsedTypes = IF f.parsedTypes.isNil THEN f.parsedTypes
                              ELSE [f.parsedTypes EXCEPT !.elems = @ \cup {f.typ}],
              !.recordIdx = newIdx,
              !.overflow = f.overflow \/ f.typ = MaxUint64,
              !.min = (f.typ + 1) % UintMod,
              !.pc = "type"]

\* lines 272-287: discard length bytes of an unknown record
discard(f, newIdx) ==
    LET c == CopyN(f.r, f.length)
        g == [f EXCEPT !.r = c.rest,
                       !.log = Append(@, [op |-> "discard", typ |-> f.typ,
                                          len |-> f.length, ok |-> c.err = nil])]
    IN  IF c.err = EOF THEN Return(g, NilTypeSet, ErrUnexpectedEOF)
        ELSE IF c.err # nil THEN Return(g, NilTypeSet, c.err)
        ELSE endOfIteration(g, newIdx)

\* decodeValue remembering the last unknown even type instead of the first
decodeValueLastFail(records, f) ==
    LET look == getRecord(records, f.typ, f.recordIdx)
    IN  IF look.ok
        THEN LET rec == records[look.rec]
                 dec == RunDecoder(rec.decoder, f.r, f.values[look.rec], f.length)
                 g == [f EXCEPT !.r = dec.rest,
                                !.values[look.rec] = dec.value,
                                !.log = Append(@, [op |-> "decode", typ |-> f.typ,
                                                   len |-> f.length,
                                                   ok |-> dec.err = nil])]
             IN  IF dec.err = EOF THEN Return(g, NilTypeSet, ErrUnexpectedEOF)
                 ELSE IF dec.err # nil THEN Return(g, NilTypeSet, dec.err)
                 ELSE endOfIteration(g, look.newIdx)
        ELSE IF f.typ % 2 = 0
        THEN IF f.parsedTypes.isNil
             THEN Return(f, NilTypeSet, ErrUnknownRequiredType(f.typ))
             ELSE discard([f EXCEPT !.firstFail = f.typ], look.newIdx)
        ELSE discard(f, look.newIdx)

\* decodeValue deferring the unknown even type also when no types are tracked
decodeValueAlwaysDefer(records, f) ==
    LET look == getRecord(records, f.typ, f.recordIdx)
    IN  IF look.ok
        THEN LET rec == records[look.rec]
                 dec == RunDecoder(rec.decoder, f.r, f.values[look.rec], f.length)
                 g == [f EXCEPT !.r = dec.rest,
                                !.values[look.rec] = dec.value,
                                !.log = Append(@, [op |-> "decode", typ |-> f.typ,
                                                   len |-> f.length,
                                                   ok |-> dec.err = nil])]
             IN  IF dec.err = EOF THEN Return(g, NilTypeSet, ErrUnexpectedEOF)
                 ELSE IF dec.err # nil THEN Return(g, NilTypeSet, dec.err)
                 ELSE endOfIteration(g, look.newIdx)
        ELSE IF f.typ % 2 = 0
        THEN discard([f EXCEPT !.firstFail = IF @ = NoFail THEN f.typ ELSE @],
                     look.newIdx)
        ELSE discard(f, look.newIdx)

\* lines 223-287: look the type up and decode, fail or discard
decodeValue(records, f) ==
    LET look == getRecord(records, f.typ, f.recordIdx)
    IN  IF look.ok
        THEN LET rec == records[look.rec]
                 dec == RunDecoder(rec.decoder, f.r, f.values[look.rec], f.length)
                 g == [f EXCEPT !.r = dec.rest,
                                !.values[look.rec] = dec.value,
                                !.log = Append(@, [op |-> "decode", typ |-> f.typ,
                                                   len |-> f.length,
                                                   ok |-> dec.err = nil])]
             IN  IF dec.err = EOF THEN Return(g, NilTypeSet, ErrUnexpectedEOF)
                 ELSE IF dec.err # nil THEN Return(g, NilTypeSet, dec.err)
                 ELSE endOfIteration(g, look.newIdx)
        ELSE IF f.typ % 2 = 0
        THEN IF f.parsedTypes.isNil
             THEN Return(f, NilTypeSet, ErrUnknownRequiredType(f.typ))
             ELSE discard([f EXCEPT !.firstFail = IF @ = NoFail THEN f.typ ELSE @],
                          look.newIdx)
        ELSE discard(f, look.newIdx)

\* lines 172-308: the loop of decode, run from frame f to its return
RECURSIVE run(_, _)
run(records, f) ==
    IF f.pc = "type" THEN run(records, readType(f))
    ELSE IF f.pc = "length" THEN run(records, readLength(f))
    ELSE IF f.pc = "value" THEN run(records, decodeValue(records, f))
    ELSE f

(* ------------------------------ Encode --------------------------------- *)
\* the error of an io.Writer that accepts no more bytes
ErrSink == Err("sink: write failed")

\* an io.Writer that accepts limit bytes in all
MakeSink(limit) == [data |-> << >>, limit |-> limit]

\* w.Write(p): the bytes that fit are taken, a short write is an error
Write(w, p) ==
    LET room == w.limit - Len(w.data)
    IN  IF Len(p) <= room
        THEN [err |-> nil, sink |-> [w EXCEPT !.data = @ \o p]]
        ELSE [err |-> ErrSink,
              sink |-> [w EXCEPT !.data = @ \o SubSeq(p, 1, room)]]

\* the first n bytes of a value: its data, then zero bytes up to its length
ValuePrefix(val, n) ==
    [i \in 1..n |-> IF i <= Len(val.data) THEN val.data[i] ELSE 0]

\* a size that counts one byte more than the encoder writes
SizeOneMore(rec, val) == IF rec.encoder = "EVarBytes" THEN val.len + 1 ELSE 0

\* rec.Size(): a presence marker has static size 0, a byte slice its length
Size(rec, val) == IF rec.encoder = "EVarBytes" THEN val.len ELSE 0

\* EVarBytes: one Write of the slice (bytes past the sink's room never land)
EVarBytes(w, val) ==
    LET room == w.limit - Len(w.data)
        n == IF val.len <= room THEN val.len ELSE room + 1
    IN  Write(w, ValuePrefix(val, n))

\* ENOP: writes nothing and succeeds
ENOP(w, val) == [err |-> nil, sink |-> w]

RunEncoder(encoder, w, val) ==
    IF encoder = "nil" THEN [err |-> PanicNilFunc, sink |-> w]
    ELSE IF encoder = "ENOP" THEN ENOP(w, val)
    ELSE EVarBytes(w, val)

\* the frame of an Encode call: i is the index of the range loop, writes the
\* calls made on the sink so far
IdleEncode ==
    [pc |-> "idle", i |-> 0, w |-> MakeSink(0), retErr |-> nil,
     values |-> << >>, writes |-> << >>]

encodeEntry(values, limit) ==
    [IdleEncode EXCEPT !.pc = "type", !.w = MakeSink(limit), !.values = values]

\* a return of Encode; a panic leaves the call without returning
EncodeReturn(e, err) ==
    [e EXCEPT !.pc = IF err = PanicNilFunc THEN "panic" ELSE "done",
              !.retErr = err]

Wrote(e, part, typ, o) ==
    [e EXCEPT !.w = o.sink,
              !.writes = Append(@, [part |-> part, typ |-> typ,
                                    n |-> Len(o.sink.data) - Len(e.w.data),
                                    ok |-> o.err = nil])]

\* encodeType walking the records from the last to the first
encodeTypeReversed(records, e) ==
    IF e.i >= Len(records) THEN EncodeReturn(e, nil)
    ELSE LET rec == records[Len(records) - e.i]
             o == Write(e.w, WriteVarInt(rec.typ))
             g == Wrote(e, "type", rec.typ, o)
         IN  IF o.err # nil THEN EncodeReturn(g, o.err)
             ELSE [g EXCEPT !.pc = "length"]

\* lines 97-104: the loop test, then the record's type as a varint
encodeType(records, e) ==
    IF e.i >= Len(records) THEN EncodeReturn(e, nil)
    ELSE LET rec == records[e.i + 1]
             o == Write(e.w, WriteVarInt(rec.typ))
             g == Wrote(e, "type", rec.typ, o)
         IN  IF o.err # nil THEN EncodeReturn(g, o.err)
             ELSE [g EXCEPT !.pc = "length"]

\* encodeLength going on to the value whatever the write returned
encodeLengthIgnoresError(records, e) ==
    LET rec == records[e.i + 1]
        o == Write(e.w, WriteVarInt(Size(rec, e.values[e.i + 1])))
        g == Wrote(e, "length", rec.typ, o)
    IN  [g EXCEPT !.pc = "value"]

\* lines 106-110: the record's length as a varint
encodeLength(records, e) ==
    LET rec == records[e.i + 1]
        o == Write(e.w, WriteVarInt(Size(rec, e.values[e.i + 1])))
        g == Wrote(e, "length", rec.typ, o)
    IN  IF o.err # nil THEN EncodeReturn(g, o.err)
        ELSE [g EXCEPT !.pc = "value"]

\* lines 112-117: the record's value through its encoder, then the next record
encodeValue(records, e) ==
    LET rec == records[e.i + 1]
        o == RunEncoder(rec.encoder, e.w, e.values[e.i + 1])
        g == Wrote(e, "value", rec.typ, o)
    IN  IF o.err # nil THEN EncodeReturn(g, o.err)
        ELSE [g EXCEPT !.pc = "type", !.i = e.i + 1]

(* ------------------------------ inputs --------------------------------- *)
\* declared lengths whose value bytes are put on the wire in full
SmallLens == {0, 1, 2}
\* declared lengths at and just above the limit; only a few of their value
\* bytes are on the wire
BigLens == {MaxRecordSize, MaxRecordSize + 1}

\* the value bytes written for a record of declared length l
Body(l) ==
    IF l = 0 THEN << >>
    ELSE IF l = 1 THEN << 3 >>
    ELSE IF l = 2 THEN << 3, 0 >>
    ELSE << 7 >>

\* one record on the wire: [varint: type] [varint: length] [length: value]
SerRec(w) == WriteVarInt(w.typ) \o WriteVarInt(w.len) \o Body(w.len)

RECURSIVE Ser(_)
Ser(ws) == IF ws = << >> THEN << >> ELSE SerRec(Head(ws)) \o Ser(Tail(ws))

WireRecs(lens) == {[typ |-> t, len |-> l] : t \in TypeVals, l \in lens}

\* an input: the records written, in any order of type, and the number of
\* bytes cut off the end of the last one
WireInputs ==
    {[recs |-> << >>, cut |-> 0]} \cup
    UNION {{[recs |-> Append(p, w), cut |-> c] : c \in 0..(Len(SerRec(w)) - 1)} :
           p \in SeqsUpTo(WireRecs(SmallLens), MaxWireRecs - 1),
           w \in WireRecs(SmallLens \cup BigLens)}

\* the bytes of an input
Bytes(w) == LET all == Ser(w.recs) IN SubSeq(all, 1, Len(all) - w.cut)

\* inputs of records with at most one value byte, the last record whole or
\* short of its last byte
ShortInputs ==
    {[recs |-> << >>, cut |-> 0]} \cup
    UNION {{[recs |-> Append(p, w), cut |-> c] : c \in 0..1} :
           p \in SeqsUpTo(WireRecs({0, 1}), MaxWireRecs - 1),
           w \in WireRecs({0, 1})}

\* the inputs of the calls on a reused Stream: fewer records, of declared
\* length 0, which leave the bound values as they are; the last record is
\* whole or lacks its length
ReuseInputs ==
    {[recs |-> << >>, cut |-> 0]} \cup
    UNION {{[recs |-> Append(p, w), cut |-> c] : c \in 0..1} :
           p \in SeqsUpTo(WireRecs({0}), MaxWireRecs - 2),
           w \in WireRecs({0})}

\* the values a caller assigns before encoding: a byte slice per record that
\* carries one, nothing for a presence marker
StoreValues == {[len |-> l, data |-> Body(l)] : l \in SmallLens}

ValueLists(records) ==
    {vals \in [1..Len(records) -> StoreValues] :
        \A i \in 1..Len(records) :
            records[i].encoder # "EVarBytes" => vals[i] = EmptyValue}

\* the longest encoding of one record, and the sinks: every capacity up to
\* the longest encoding of a Stream
MaxRecLen == Len(WriteVarInt(MaxUint64)) + 1 + 2
SinkLimits == 0..(MaxRecords * MaxRecLen)

\* records as MakeStaticRecord builds them when it is passed a nil encoder
\* or a nil decoder
NilCapabilities ==
    {[decoder |-> "nil", encoder |-> "nil"],
     [decoder |-> "nil", encoder |-> "EVarBytes"],
     [decoder |-> "DVarBytes", encoder |-> "nil"],
     [decoder |-> "DVarBytes", encoder |-> "EVarBytes"]}

NilRecordLists ==
    SeqsUpTo({[typ |-> t, decoder |-> c.decoder, encoder |-> c.encoder] :
                 t \in {0, 1}, c \in NilCapabilities}, MaxRecords)

(* ------------------------------- state --------------------------------- *)
VARIABLES
    built,      \* "no" before NewStream, then "ok" or "err"
    s,          \* the *Stream NewStream returned
    newInput,   \* the record list NewStream was called with
    newErr,     \* the error NewStream returned
    wire,       \* the input of the current Decode call
    f,          \* the frame of the current decode call
    enc,        \* the frame of the current Encode call
    hist        \* what the caller saw: the bytes and the bound values the
                \* current decode call started with, and how the call before
                \* the current one ended

vars == << built, s, newInput, newErr, wire, f, enc, hist >>

NilStream == [isNil |-> TRUE, records |-> << >>]

NoCall ==
    [op |-> "none", failed |-> FALSE, overflow |-> FALSE,
     deferred |-> FALSE, advanced |-> FALSE]

\* how the call that has just ended went
LastCall(ff, ee) ==
    IF ff.pc = "done"
    THEN [op |-> "decode", failed |-> ff.retErr # nil,
          overflow |-> ff.overflow, deferred |-> ff.firstFail # NoFail,
          advanced |-> ff.recordIdx > 0]
    ELSE IF ee.pc = "done"
    THEN [NoCall EXCEPT !.op = "Encode", !.failed = ee.retErr # nil]
    ELSE NoCall

Init ==
    /\ built = "no"
    /\ s = NilStream
    /\ newInput = << >>
    /\ newErr = nil
    /\ wire = [recs |-> << >>, cut |-> 0]
    /\ f = IdleFrame(<< >>)
    /\ enc = IdleEncode
    /\ hist = [input |-> << >>, entry |-> << >>, prev |-> NoCall]

\* the storage the records point to, as the caller allocated it
InitialValues(records) == [i \in 1..Len(records) |-> EmptyValue]

(* ------------------------------ actions -------------------------------- *)
\* lines 43-69, called with a record list out of lists; the defaults of
\* lines 54-59 are assigned to the loop variable, a copy of the element, so
\* the slice stored at line 67 is the slice the caller passed
NewStreamFrom(lists) ==
    /\ built = "no"
    /\ \E records \in lists :
          /\ newInput' = records
          /\ newErr' = NewStreamErr(records)
          /\ IF NewStreamErr(records) = nil
             THEN /\ built' = "ok"
                  /\ s' = [isNil |-> FALSE, records |-> records]
                  /\ f' = IdleFrame(InitialValues(records))
                  /\ hist' = [hist EXCEPT !.entry = InitialValues(records)]
             ELSE /\ built' = "err"
                  /\ s' = NilStream
                  /\ f' = f
                  /\ hist' = hist
    /\ UNCHANGED << wire, enc >>

NewStream ==
    /\ built = "no"
    /\ NewStreamFrom(RecordLists)

\* records built without an encoder or a decoder are among the inputs
NewStreamNil ==
    /\ built = "no"
    /\ NewStreamFrom(NilRecordLists)

\* the caller assigns the values the records are bound to
Store ==
    /\ built = "ok"
    /\ f.pc = "idle"
    /\ enc.pc = "idle"
    /\ \E vals \in ValueLists(s.records) :
          /\ f' = [f EXCEPT !.values = vals]
          /\ hist' = [hist EXCEPT !.entry = vals]
    /\ UNCHANGED << built, s, newInput, newErr, wire, enc >>

\* decodeCall with min, firstFail, recordIdx and overflow kept in the Stream
\* from one call to the next
decodeCallKeepsLocals(inputs, pcs, parsedTypes) ==
    /\ built = "ok"
    /\ f.pc \in pcs
    /\ enc.pc \in {"idle", "done"}
    /\ \E w \in inputs :
          /\ wire' = w
          /\ f' = [decodeEntry(f.values, Bytes(w), parsedTypes)
                      EXCEPT !.min = f.min, !.firstFail = f.firstFail,
                             !.recordIdx = f.recordIdx,
                             !.overflow = f.overflow]
          /\ hist' = [input |-> Bytes(w), entry |-> f.values,
                      prev |-> LastCall(f, enc)]
    /\ enc' = IdleEncode
    /\ UNCHANGED << built, s, newInput, newErr >>

\* a call of decode on input w, made when the Stream is in one of the
\* positions pcs; the frames of the calls that have ended are gone
decodeCall(inputs, pcs, parsedTypes) ==
    /\ built = "ok"
    /\ f.pc \in pcs
    /\ enc.pc \in {"idle", "done"}
    /\ \E w \in inputs :
          /\ wire' = w
          /\ f' = decodeEntry(f.values, Bytes(w), parsedTypes)
          /\ hist' = [input |-> Bytes(w), entry |-> f.values,
                      prev |-> LastCall(f, enc)]
    /\ enc' = IdleEncode
    /\ UNCHANGED << built, s, newInput, newErr >>

Decode ==
    /\ built = "ok"
    /\ decodeCall(WireInputs, {"idle"}, NilTypeSet)

DecodeWithParsedTypes ==
    /\ built = "ok"
    /\ decodeCall(WireInputs, {"idle"}, MakeTypeSet)

\* Decode and DecodeWithParsedTypes on a Stream that may have been used
DecodeReused ==
    /\ built = "ok"
    /\ decodeCall(ReuseInputs, {"idle", "done"}, NilTypeSet)

DecodeWithParsedTypesReused ==
    /\ built = "ok"
    /\ decodeCall(ReuseInputs, {"idle", "done"}, MakeTypeSet)

\* Decode by a fresh Stream of the same records, bound to fresh storage, of
\* the bytes the Encode call that has ended left in its sink
DecodeEncoded ==
    /\ built = "ok"
    /\ f.pc = "idle"
    /\ enc.pc = "done"
    /\ wire' = [recs |-> [i \in 1..Len(s.records) |->
                            [typ |-> s.records[i].typ,
                             len |-> Size(s.records[i], enc.values[i])]],
                cut |-> 0]
    /\ f' = decodeEntry(InitialValues(s.records), enc.w.data, NilTypeSet)
    /\ hist' = [input |-> enc.w.data, entry |-> InitialValues(s.records),
                prev |-> LastCall(f, enc)]
    /\ UNCHANGED << built, s, newInput, newErr, enc >>

ReadType ==
    /\ f.pc = "type"
    /\ f' = readType(f)
    /\ UNCHANGED << built, s, newInput, newErr, wire, enc, hist >>

ReadLength ==
    /\ f.pc = "length"
    /\ f' = readLength(f)
    /\ UNCHANGED << built, s, newInput, newErr, wire, enc, hist >>

DecodeValue ==
    /\ f.pc = "value"
    /\ f' = decodeValue(s.records, f)
    /\ UNCHANGED << built, s, newInput, newErr, wire, enc, hist >>

\* lines 94-120, a call of Encode on a sink that takes limit bytes
Encode ==
    /\ built = "ok"
    /\ f.pc \in {"idle", "done"}
    /\ enc.pc \in {"idle", "done"}
    /\ \E limit \in SinkLimits :
          enc' = encodeEntry(f.values, limit)
    /\ f' = IdleFrame(f.values)
    /\ hist' = [hist EXCEPT !.prev = LastCall(f, enc)]
    /\ UNCHANGED << built, s, newInput, newErr, wire >>

EncodeType ==
    /\ enc.pc = "type"
    /\ enc' = encodeType(s.records, enc)
    /\ UNCHANGED << built, s, newInput, newErr, wire, f, hist >>

EncodeLength ==
    /\ enc.pc = "length"
    /\ enc' = encodeLength(s.records, enc)
    /\ UNCHANGED << built, s, newInput, newErr, wire, f, hist >>

EncodeValue ==
    /\ enc.pc = "value"
    /\ enc' = encodeValue(s.records, enc)
    /\ UNCHANGED << built, s, newInput, newErr, wire, f, hist >>

Next ==
    \/ NewStream
    \/ Decode
    \/ DecodeWithParsedTypes
    \/ ReadType
    \/ ReadLength
    \/ DecodeValue

Spec == Init /\ [][Next]_vars

\* Decode and DecodeWithParsedTypes on the short inputs
DecodeShort ==
    /\ built = "ok"
    /\ decodeCall(ShortInputs, {"idle"}, NilTypeSet)

DecodeWithParsedTypesShort ==
    /\ built = "ok"
    /\ decodeCall(ShortInputs, {"idle"}, MakeTypeSet)

NextShort ==
    \/ NewStream
    \/ DecodeShort
    \/ DecodeWithParsedTypesShort
    \/ ReadType
    \/ ReadLength
    \/ DecodeValue

\* a call of decode runs on the caller's thread until it returns: no step
\* of the loop that can be taken is put off for ever
FairSpec ==
    /\ Init /\ [][NextShort]_vars
    /\ WF_vars(ReadType)
    /\ WF_vars(ReadLength)
    /\ WF_vars(DecodeValue)

\* a Stream is built, its values are assigned, it is encoded, and what was
\* written is decoded
NextEncode ==
    \/ NewStream
    \/ Store
    \/ Encode
    \/ EncodeType
    \/ EncodeLength
    \/ EncodeValue
    \/ DecodeEncoded
    \/ ReadType
    \/ ReadLength
    \/ DecodeValue

SpecEncode == Init /\ [][NextEncode]_vars

\* one Stream used for any number of calls, one after the other
NextReuse ==
    \/ NewStream
    \/ DecodeReused
    \/ DecodeWithParsedTypesReused
    \/ ReadType
    \/ ReadLength
    \/ DecodeValue
    \/ Encode
    \/ EncodeType
    \/ EncodeLength
    \/ EncodeValue

SpecReuse == Init /\ [][NextReuse]_vars

\* the same calls on Streams built from records that may lack a capability
NextNil ==
    \/ NewStreamNil
    \/ DecodeReused
    \/ DecodeWithParsedTypesReused
    \/ ReadType
    \/ ReadLength
    \/ DecodeValue
    \/ Encode
    \/ EncodeType
    \/ EncodeLength
    \/ EncodeValue

SpecNil == Init /\ [][NextNil]_vars

(* --------------------------- observations ------------------------------ *)
Done == f.pc = "done"
Tracked == ~f.parsedTypes.isNil
Known(t) == \E i \in 1..Len(s.records) : s.records[i].typ = t
RecordOf(t) == CHOOSE i \in 1..Len(s.records) : s.records[i].typ = t

\* the types of the records a decoder or a discard was started for
Attempted == {f.log[i].typ : i \in 1..Len(f.log)}

\* the types of the records the call has decoded or discarded in full
Processed == {f.log[i].typ : i \in {j \in 1..Len(f.log) : f.log[j].ok}}

\* strictly ascending by type, hence free of duplicates
StrictlyAscending(recs) ==
    \A i, j \in 1..Len(recs) : i < j => recs[i].typ < recs[j].typ

\* the input is whole: nothing cut off and every value present in full
Complete(w) ==
    /\ w.cut = 0
    /\ \A i \in 1..Len(w.recs) : w.recs[i].len \in SmallLens

(* ------------------------------- C1 ------------------------------------ *)
\* C1: NewStream returns a Stream holding the list and no error exactly
\* when the list is strictly ascending by type (the empty list and a list
\* ending in the maximum type included); for any other list (a duplicate,
\* a descending pair, a record after the maximum type) it returns
\* ErrStreamNotCanonical and no Stream.
C1_NewStreamCanonical ==
    built # "no" =>
        IF StrictlyAscending(newInput)
        THEN built = "ok" /\ newErr = nil /\ ~s.isNil /\ s.records = newInput
        ELSE built = "err" /\ newErr = ErrStreamNotCanonical /\ s.isNil

\* a record of type 0 after one of the maximum type is rejected
C1_Witness ==
    /\ built = "err"
    /\ Len(newInput) = 2
    /\ newInput[1].typ = MaxUint64
    /\ newInput[2].typ = 0

(* ------------------------------- C2 ------------------------------------ *)
\* the type tags present in full on the wire, in order
TagPresent(w, i) ==
    \/ i < Len(w.recs)
    \/ Len(SerRec(w.recs[i])) - w.cut >= Len(WriteVarInt(w.recs[i].typ))

WireTags(w) == SelectSeq([i \in 1..Len(w.recs) |-> [typ |-> w.recs[i].typ, at |-> i]],
                         LAMBDA e : TagPresent(w, e.at))

C3_RecordTooLarge ==
    /\ f.pc = "value" => f.length <= MaxRecordSize
    /\ (Done /\ f.length > MaxRecordSize)
         => /\ f.retErr = ErrRecordTooLarge
            /\ f.retSet = NilTypeSet
            /\ Len(f.r) = f.afterLen
            /\ f.typ \notin Attempted
    /\ (Done /\ f.retErr = ErrRecordTooLarge) => f.length > MaxRecordSize

\* a known type, types tracked, value bytes left unread behind the length
C3_Witness ==
    /\ Done
    /\ Tracked
    /\ f.retErr = ErrRecordTooLarge
    /\ Known(f.typ)
    /\ f.r # << >>

(* --------------------------- well-formed input ------------------------- *)
DecoderOfType(t) == s.records[RecordOf(t)].decoder

\* the input is whole, and every record known to the Stream has a length
\* its decoder consumes in full (DNOP reads nothing, so length 0)
WellFormed(w) ==
    /\ Complete(w)
    /\ \A i \in 1..Len(w.recs) :
          (Known(w.recs[i].typ) /\ DecoderOfType(w.recs[i].typ) = "DNOP")
              => w.recs[i].len = 0

Canonical(w) == StrictlyAscending(w.recs)

UnknownEven(w) ==
    {i \in 1..Len(w.recs) : ~Known(w.recs[i].typ) /\ w.recs[i].typ % 2 = 0}

FirstUnknownEven(w) ==
    CHOOSE i \in UnknownEven(w) : \A j \in UnknownEven(w) : i <= j

\* what the log of a call that processed the records ws in order looks like
LogOf(ws) ==
    [i \in 1..Len(ws) |->
        [op |-> IF Known(ws[i].typ) THEN "decode" ELSE "discard",
         typ |-> ws[i].typ, len |-> ws[i].len, ok |-> TRUE]]

\* the value a record is bound to after decoding the wire record e
DecodedValue(e) ==
    IF DecoderOfType(e.typ) = "DNOP" THEN EmptyValue
    ELSE [len |-> e.len, data |-> Body(e.len)]

(* ------------------------------- C4 ------------------------------------ *)
\* C4: DecodeWithParsedTypes on a well-formed canonical input containing
\* even types unknown to the Stream does not stop at them: every record is
\* decoded or discarded, every known record's value is updated, the input
\* is read to its end, the returned set holds every type on the wire and
\* the error is ErrUnknownRequiredType naming the first unknown even type.
C4_DeferredUnknownRequired ==
    (Done /\ Tracked /\ WellFormed(wire) /\ Canonical(wire)
          /\ UnknownEven(wire) # {})
        => /\ f.retErr = ErrUnknownRequiredType(wire.recs[FirstUnknownEven(wire)].typ)
           /\ f.retSet = [isNil |-> FALSE,
                          elems |-> {wire.recs[i].typ : i \in 1..Len(wire.recs)}]
           /\ f.log = LogOf(wire.recs)
           /\ \A i \in 1..Len(wire.recs) :
                 Known(wire.recs[i].typ)
                     => f.values[RecordOf(wire.recs[i].typ)] = DecodedValue(wire.recs[i])
           /\ f.r = << >>

\* unknown type 0 of length 1, then known type 1 whose two bytes are stored
C4_Witness ==
    /\ Done
    /\ Tracked
    /\ wire = [recs |-> << [typ |-> 0, len |-> 1], [typ |-> 1, len |-> 2] >>,
               cut |-> 0]
    /\ ~Known(0)
    /\ Known(1)
    /\ f.retErr = ErrUnknownRequiredType(0)
    /\ f.values[RecordOf(1)] = [len |-> 2, data |-> << 3, 0 >>]

WithoutUnknownOdd(w) ==
    [recs |-> SelectSeq(w.recs, LAMBDA e : Known(e.typ) \/ e.typ % 2 = 0),
     cut |-> w.cut]

UnknownOdd(w) == SelectSeq(w.recs, LAMBDA e : ~Known(e.typ) /\ e.typ % 2 = 1)

\* C6: Decode on a well-formed canonical input without unknown even types
\* succeeds with the input read to its end; the discards are exactly the
\* unknown odd records, each of its declared length, and the values bound
\* to the known records are those Decode leaves on the same input with the
\* unknown odd records removed.
C6_UnknownOddSkipped ==
    (Done /\ ~Tracked /\ WellFormed(wire) /\ Canonical(wire)
          /\ UnknownEven(wire) = {})
        => /\ f.retErr = nil
           /\ f.r = << >>
           /\ SelectSeq(f.log, LAMBDA e : e.op = "discard") = LogOf(UnknownOdd(wire))
           /\ LET g == run(s.records,
                           decodeEntry(InitialValues(s.records),
                                       Bytes(WithoutUnknownOdd(wire)), NilTypeSet))
              IN  /\ g.retErr = nil
                  /\ f.values = g.values
                  /\ SelectSeq(f.log, LAMBDA e : e.op = "decode") = g.log

\* unknown odd type 1 of length 2 is skipped, known type 16777215 behind it
\* is decoded
C6_Witness ==
    /\ Done
    /\ ~Tracked
    /\ f.retErr = nil
    /\ wire = [recs |-> << [typ |-> 1, len |-> 2], [typ |-> MaxUint64, len |-> 1] >>,
               cut |-> 0]
    /\ ~Known(1)
    /\ Known(MaxUint64)
    /\ f.values[RecordOf(MaxUint64)] = [len |-> 1, data |-> << 3 >>]

(* ------------------------------- C7 ------------------------------------ *)
\* the bytes of the last record that are on the wire
Present(w) == Len(SerRec(w.recs[Len(w.recs)])) - w.cut

\* the input ends inside its last record: after the type tag and before
\* the length, or after the length with fewer value bytes than declared
TruncatedInRecord(w) ==
    /\ w.recs # << >>
    /\ LET last == w.recs[Len(w.recs)]
           tagLen == Len(WriteVarInt(last.typ))
           lenLen == Len(WriteVarInt(last.len))
       IN  \/ Present(w) = tagLen
           \/ /\ Present(w) >= tagLen + lenLen
              /\ Present(w) - tagLen - lenLen < last.len

\* C7: an input that ends after a type tag but before its length, or inside
\* the value bytes of a known or an unknown record, is never accepted: the
\* call fails, with io.ErrUnexpectedEOF unless an earlier check already
\* failed it, and never with success or a bare io.EOF.
C7_Original ==
    (Done /\ TruncatedInRecord(wire))
        => f.retErr.name \in {"io.ErrUnexpectedEOF", "ErrStreamNotCanonical",
                              "ErrRecordTooLarge", "ErrUnknownRequiredType"}

(* ------------------------------- C8 ------------------------------------ *)
\* C8: when DecodeWithParsedTypes returns without error the returned
\* TypeSet is exactly the set of types of the records on the wire, and on
\* the empty input it is the empty set with no decoder invoked.
C8_Original ==
    (Done /\ Tracked /\ f.retErr = nil)
        => /\ f.retSet = [isNil |-> FALSE,
                          elems |-> {wire.recs[i].typ : i \in 1..Len(wire.recs)}]
           /\ wire.recs = << >> => f.log = << >>

(* ------------------------------- C9 ------------------------------------ *)
\* C9 as stated: whenever DecodeWithParsedTypes returns an error, the
\* returned TypeSet contains the type of every record decoded or skipped
\* before the failure.
C9_Original ==
    (Done /\ Tracked /\ f.retErr # nil) => Processed \subseteq f.retSet.elems

\* C9 (amended): when DecodeWithParsedTypes returns ErrUnknownRequiredType
\* the returned TypeSet is exactly the set of types decoded or skipped; when
\* it returns any other error the returned TypeSet is nil.
C9_SetOnlyWithDeferredError ==
    (Done /\ Tracked /\ f.retErr # nil)
        => IF f.retErr.name = "ErrUnknownRequiredType"
           THEN f.retSet = [isNil |-> FALSE, elems |-> Processed]
           ELSE f.retSet = NilTypeSet

\* a record was processed, the next one is cut short: the set is nil
C9_Witness ==
    /\ Done
    /\ Tracked
    /\ f.retErr = ErrUnexpectedEOF
    /\ Processed # {}
    /\ f.retSet = NilTypeSet

(* ------------------------------- C10 ----------------------------------- *)
\* C10 as stated: in tracked decoding, once an unknown even type has been
\* deferred (and its bytes discarded) the call returns only with the input
\* read to its end, and the error is the unknown-required-type error.
C10_Original ==
    (Done /\ Tracked /\ f.firstFail \in Processed)
        => /\ f.r = << >>
           /\ f.retErr = ErrUnknownRequiredType(f.firstFail)

\* C10 (amended): in tracked decoding, once an unknown even type has been
\* deferred the call never succeeds and returns one error: the
\* ErrUnknownRequiredType naming the first such type, and then only from
\* the clean end of the input with no byte left unread, or else the
\* not-canonical, too-large, truncation or decoder error of a later record,
\* returned at once with a nil set.
C10_DeferredUntilCleanEnd ==
    /\ (Done /\ Tracked /\ f.firstFail # NoFail)
         => IF f.retErr.name = "ErrUnknownRequiredType"
            THEN /\ f.retErr.typ = f.firstFail
                 /\ f.r = << >>
                 /\ f.firstFail \in Processed
            ELSE /\ f.retErr.name \in {"ErrStreamNotCanonical", "ErrRecordTooLarge",
                                       "io.ErrUnexpectedEOF"}
                 /\ f.retSet = NilTypeSet
    /\ (Done /\ Tracked /\ f.retErr.name = "ErrUnknownRequiredType")
         => f.firstFail # NoFail /\ f.r = << >>

\* a second record was read after the deferral, then the clean end
C10_Witness ==
    /\ Done
    /\ Tracked
    /\ f.firstFail # NoFail
    /\ Len(f.log) = 2
    /\ f.log[1].typ = f.firstFail
    /\ f.retErr = ErrUnknownRequiredType(f.firstFail)
    /\ f.r = << >>

(* ------------------------ Encode and round trip ------------------------ *)
\* every byte of the value is given
Whole(v) == Len(v.data) = v.len

\* the Encode call has ended and a fresh Stream has decoded what it wrote
DecodedBack == f.pc = "done" /\ enc.pc = "done" /\ hist.input = enc.w.data

\* C11: when Encode has succeeded on values of at most MaxRecordSize bytes,
\* decoding the bytes it wrote with a fresh Stream of the same records
\* succeeds, leaves every bound value equal to the encoded one and consumes
\* the input to its end
C11_RoundTrip ==
    (/\ DecodedBack
     /\ enc.retErr = nil
     /\ \A i \in 1..Len(enc.values) :
           Whole(enc.values[i]) /\ enc.values[i].len <= MaxRecordSize)
    => /\ f.retErr = nil
       /\ f.values = enc.values
       /\ f.r = << >>

C11_Witness ==
    /\ DecodedBack
    /\ enc.retErr = nil
    /\ Len(s.records) = 2
    /\ enc.values[1].len = 2
    /\ enc.values[2].len = 1
    /\ f.values = enc.values
    /\ f.values # hist.entry

\* the bytes of one record: [varint: type] [varint: length] [length: value]
EncodingOfRecord(rec, val) ==
    WriteVarInt(rec.typ) \o WriteVarInt(Size(rec, val))
        \o ValuePrefix(val, Size(rec, val))

\* the concatenation of the encodings of records i, i + 1, ... in stored order
RECURSIVE EncodingFrom(_, _, _)
EncodingFrom(records, values, i) ==
    IF i > Len(records) THEN << >>
    ELSE EncodingOfRecord(records[i], values[i])
            \o EncodingFrom(records, values, i + 1)

EncodingOf(records, values) == EncodingFrom(records, values, 1)

IsPrefix(p, q) == Len(p) <= Len(q) /\ SubSeq(q, 1, Len(p)) = p

Encoding == enc.pc \in {"type", "length", "value", "done"}

\* the types Encode has written so far, in the order written
TypesWritten ==
    LET idx == {k \in 1..Len(enc.writes) :
                   enc.writes[k].part = "type" /\ enc.writes[k].ok}
    IN  [j \in 1..Cardinality(idx) |->
            enc.writes[CHOOSE k \in idx :
                          Cardinality({m \in idx : m <= k}) = j].typ]

\* C12: Encode goes through the Records in stored order and writes, for
\* each, its type, then its size, then its value, and nothing else: what the
\* sink holds is always the start of the concatenation of the records'
\* encodings and, on success, all of it; the types written are strictly
\* ascending, and the order check of a decoder never rejects the output
C12_EncodeInStoredOrder ==
    /\ Encoding =>
          /\ \A k \in 1..Len(enc.writes) :
                /\ enc.writes[k].part
                     = << "type", "length", "value" >>[((k - 1) % 3) + 1]
                /\ enc.writes[k].typ = s.records[((k - 1) \div 3) + 1].typ
          /\ IsPrefix(enc.w.data, EncodingOf(s.records, enc.values))
          /\ StrictlyAscending([j \in 1..Len(TypesWritten) |->
                                   [typ |-> TypesWritten[j]]])
          /\ (enc.pc = "done" /\ enc.retErr = nil) =>
                /\ enc.w.data = EncodingOf(s.records, enc.values)
                /\ Len(enc.writes) = 3 * Len(s.records)
    /\ DecodedBack => f.retErr # ErrStreamNotCanonical

C12_Witness ==
    /\ DecodedBack
    /\ enc.retErr = nil
    /\ Len(s.records) = 2
    /\ TypesWritten = << 1, MaxUint64 >>
    /\ enc.values[1].len = 2
    /\ Len(enc.w.data) = 9
    /\ f.retErr = nil

\* the encodings of the first n records
EncodingUpTo(n) ==
    EncodingOf(SubSeq(s.records, 1, n), SubSeq(enc.values, 1, n))

\* the number of bytes the sink took over all the writes made
BytesTaken ==
    LET RECURSIVE Sum(_)
        Sum(k) == IF k = 0 THEN 0 ELSE enc.writes[k].n + Sum(k - 1)
    IN  Sum(Len(enc.writes))

\* C13: a write of Encode that fails, whether of a type, a length or a
\* value, is the last write of the call: Encode has returned the sink's
\* error, and the sink holds the whole encodings of the records before the
\* failing one followed by what it took of the failing record, nothing
\* being taken back
C13_WriteFailureAborts ==
    Encoding =>
       /\ \A k \in 1..Len(enc.writes) :
             ~enc.writes[k].ok =>
                 /\ k = Len(enc.writes)
                 /\ enc.pc = "done"
                 /\ enc.retErr = ErrSink
       /\ (enc.pc = "done" /\ enc.retErr # nil) =>
             /\ enc.retErr = ErrSink
             /\ ~enc.writes[Len(enc.writes)].ok
             /\ enc.i < Len(s.records)
             /\ Len(enc.writes) \in (3 * enc.i + 1)..(3 * enc.i + 3)
             /\ IsPrefix(EncodingUpTo(enc.i), enc.w.data)
             /\ IsPrefix(enc.w.data, EncodingUpTo(enc.i + 1))
             /\ enc.w.data # EncodingUpTo(enc.i + 1)
             /\ Len(enc.w.data) = BytesTaken
             /\ Len(enc.w.data) = enc.w.limit

C13_Witness ==
    /\ enc.pc = "done"
    /\ enc.retErr = ErrSink
    /\ enc.i = 1
    /\ Len(enc.writes) = 6
    /\ enc.writes[6].part = "value"
    /\ enc.writes[6].n = 1
    /\ enc.values[1].len = 1

(* ------------------------------- C14 ----------------------------------- *)
\* C14 as stated: after a successful construction every Record the Stream
\* holds has an encoder and a decoder, ENOP and DNOP standing in for the
\* ones not supplied, so that neither Encode nor decode ever calls an absent
\* capability
C14_Original ==
    /\ built = "ok" =>
          \A i \in 1..Len(s.records) :
              s.records[i].encoder # "nil" /\ s.records[i].decoder # "nil"
    /\ enc.pc # "panic"
    /\ f.pc # "panic"

(* ------------------------------- C15 ----------------------------------- *)
\* the call has decoded or discarded a record of the maximum type
MaxAccepted ==
    \E k \in 1..Len(f.log) : f.log[k].typ = MaxUint64 /\ f.log[k].ok

\* C15: once decode has accepted a record of the maximum type, that record
\* is the last one it accepts: a clean end of the input ends the call with
\* no error other than a deferred one, and a further type tag, whatever its
\* value, type 0 included, ends it with ErrStreamNotCanonical.  NewStream
\* likewise rejects every list that has a record after one of the maximum
\* type.
C15_NothingAfterMaxType ==
    /\ MaxAccepted =>
          /\ f.log[Len(f.log)].typ = MaxUint64
          /\ f.pc \in {"type", "done"}
          /\ f.pc = "type" =>
                LET tag == ReadVarInt(f.r)
                    g == readType(f)
                IN  /\ g.pc = "done"
                    /\ tag.err = nil => g.retErr = ErrStreamNotCanonical
                    /\ g.retErr = nil => f.r = << >>
          /\ Done =>
                \/ f.retErr = ErrStreamNotCanonical
                \/ /\ f.r = << >>
                   /\ f.retErr \in {nil, ErrUnexpectedEOF, ErrVarIntNotCanonical}
                                     \cup {ErrUnknownRequiredType(f.firstFail)}
    /\ (built # "no" /\ \E i \in 1..(Len(newInput) - 1) :
                           newInput[i].typ = MaxUint64)
          => built = "err" /\ newErr = ErrStreamNotCanonical

\* type 0 was read after a record of the maximum type, where min had
\* wrapped to 0
C15_Witness ==
    /\ Done
    /\ MaxAccepted
    /\ f.min = 0
    /\ f.typ = 0
    /\ f.retErr = ErrStreamNotCanonical
    /\ Len(f.log) = 1

(* ------------------------------- C16 ----------------------------------- *)
\* a step of the loop of one decode call
InCall == f.pc \in {"type", "length", "value"}

\* the cursor is an index into s.records or one past its end, and the
\* lookup from the cursor agrees with a search of the whole list
CursorSound ==
    /\ f.recordIdx \in 0..Len(s.records)
    /\ f.pc = "value" =>
          LET look == getRecord(s.records, f.typ, f.recordIdx)
          IN  /\ look.ok <=> Known(f.typ)
              /\ look.ok => s.records[look.rec].typ = f.typ
              /\ look.newIdx \in f.recordIdx..Len(s.records)

\* C16: within one decode call recordIdx never decreases and stays within
\* 0..len(s.records), and getRecord started at recordIdx finds a record
\* exactly when the type read is the type of one of the Stream's records
C16_CursorRefinesSearch ==
    [][CursorSound' /\ (InCall => f'.recordIdx >= f.recordIdx)]_vars

\* an unknown type made the cursor walk past a smaller known type, and the
\* next type was found from there
C16_Witness ==
    /\ Done
    /\ Len(s.records) = 2
    /\ f.recordIdx = 2
    /\ Len(f.log) = 2
    /\ f.log[1].op = "discard"
    /\ f.log[1].typ > s.records[1].typ
    /\ f.log[2].op = "decode"

(* ------------------------------- C17 ----------------------------------- *)
\* the call the caller would have made through the other entry point: the
\* same Stream, bound values and input, with types tracked instead of not
\* tracked or the reverse
OtherMode ==
    run(s.records,
        decodeEntry(hist.entry, hist.input,
                    IF Tracked THEN NilTypeSet ELSE MakeTypeSet))

\* of the call made and the other call o, the one that tracks the types
TrackedCall(o) == IF Tracked THEN f ELSE o

\* the input holds, where decode reads its type tags, no type that is even
\* and unknown to the Stream
NoUnknownEvenMet(o) == TrackedCall(o).firstFail = NoFail

\* C17: on an input in which decode meets no type that is even and unknown
\* to the Stream, Decode and DecodeWithParsedTypes return the same error,
\* make the same decoder calls and discards in the same order with the same
\* lengths, leave the same values and stop at the same place in the input;
\* Decode returns no set
C17_TrackingChangesOnlyTheSet ==
    Done =>
        LET o == OtherMode
        IN  NoUnknownEvenMet(o) =>
               /\ o.pc = "done"
               /\ o.retErr = f.retErr
               /\ o.log = f.log
               /\ o.values = f.values
               /\ o.r = f.r
               /\ ~Tracked => f.retSet.isNil

\* a tracked call decoded a known record, skipped an unknown odd one and
\* succeeded, as the untracked call on the same input does
C17_Witness ==
    /\ Done
    /\ Tracked
    /\ NoUnknownEvenMet(OtherMode)
    /\ f.retErr = nil
    /\ f.retSet.elems = {0, 1}
    /\ Known(0)
    /\ ~Known(1)
    /\ f.values # hist.entry
    /\ OtherMode.retSet.isNil
    /\ OtherMode.values = f.values

(* ------------------------------- C18 ----------------------------------- *)
\* the call as a Stream never used before makes it: the same records, the
\* same bound values and input, every local at its zero value
FreshCall ==
    run(s.records, decodeEntry(hist.entry, hist.input, f.parsedTypes))

\* a decode call has been entered and has not read anything yet
AtEntry == f.pc = "type" /\ f.log = << >> /\ f.r = hist.input

\* C18: every decode call starts with min 0, overflow false, no deferred
\* failure and recordIdx 0, whatever Encode and decode calls the Stream has
\* served before and however they ended; the records of the Stream stay the
\* list it was built from; so a call returns, logs and leaves in the reader
\* and the values exactly what the same call on a fresh Stream does
C18_NoStateAcrossCalls ==
    /\ built = "ok" => s.records = newInput
    /\ AtEntry => /\ f.min = 0
                  /\ ~f.overflow
                  /\ f.firstFail = NoFail
                  /\ f.recordIdx = 0
    /\ Done => f = FreshCall

\* the call before ended with overflow set and the cursor at the end; this
\* one decodes type 0 with the first record
C18_Witness ==
    /\ Done
    /\ hist.prev.op = "decode"
    /\ hist.prev.overflow
    /\ hist.prev.advanced
    /\ f.retErr = nil
    /\ Len(s.records) = 2
    /\ f.log = << [op |-> "decode", typ |-> 0, len |-> 0, ok |-> TRUE] >>

(* ------------------------------- C19 ----------------------------------- *)
\* the records of the Stream whose type is not on the wire
Omitted ==
    {i \in 1..Len(s.records) :
        \A k \in 1..Len(wire.recs) : wire.recs[k].typ # s.records[i].typ}

\* the types decoders were called for, in the order of the calls
DecoderCalls == SelectSeq(f.log, LAMBDA c : c.op = "decode")

\* C19: a well-formed canonical input without unknown even types is decoded
\* with success whichever known records it leaves out, records of even type
\* included; the decoder of a record left out is not called and the value
\* bound to it stays as it was; and on any input no decoder is called twice
\* in one call
C19_KnownRecordsOptional ==
    /\ (WellFormed(wire) /\ Canonical(wire)) =>
          /\ \A i \in Omitted :
                /\ f.values[i] = hist.entry[i]
                /\ \A k \in 1..Len(DecoderCalls) :
                      DecoderCalls[k].typ # s.records[i].typ
          /\ (Done /\ UnknownEven(wire) = {}) => f.retErr = nil
    /\ \A j, k \in 1..Len(DecoderCalls) :
          j # k => DecoderCalls[j].typ # DecoderCalls[k].typ

\* the Stream knows types 0 and 1, the input holds type 1 alone: record 0,
\* of even type, is left as it was and record 1 is decoded
C19_Witness ==
    /\ Done
    /\ f.retErr = nil
    /\ Len(s.records) = 2
    /\ s.records[1].typ = 0
    /\ s.records[2].typ = 1
    /\ Omitted = {1}
    /\ wire = [recs |-> << [typ |-> 1, len |-> 2] >>, cut |-> 0]
    /\ f.values[1] = hist.entry[1]
    /\ f.values[2] = [len |-> 2, data |-> << 3, 0 >>]

(* ------------------------------- C20 ----------------------------------- *)
\* the bytes the call has taken from its input
Consumed == Len(hist.input) - Len(f.r)

\* one step of the loop: the type read goes on to the length only with the
\* bytes of a type tag consumed, the length read goes on to the value only
\* with the bytes of a length consumed, and no step gives bytes back
StepConsumes ==
    /\ (f.pc = "type" /\ f'.pc # "done") =>
          f'.pc = "length" /\ Len(f'.r) < Len(f.r)
    /\ (f.pc = "length" /\ f'.pc # "done") =>
          f'.pc = "value" /\ Len(f'.r) < Len(f.r)
    /\ (f.pc = "value" /\ f'.pc # "done") =>
          f'.pc = "type" /\ Len(f'.r) <= Len(f.r)

\* the iterations completed are bounded by the input: two bytes at least
\* are consumed for each, and on a well-formed input there is one record on
\* the wire for each
IterationsBounded ==
    /\ 2 * Len(f.log) <= Consumed
    /\ WellFormed(wire) => Len(f.log) <= Len(wire.recs)

\* C20: every iteration of the loop of decode returns or consumes the bytes
\* of a type tag and of a length, so the iterations are bounded by the
\* input, and every call that has been entered returns, with success or
\* with an error, also after the overflow flag was set
C20_DecodeTerminates ==
    /\ [][InCall => (StepConsumes /\ IterationsBounded')]_vars
    /\ InCall ~> Done

\* the call returned at the clean end behind the maximum type, having gone
\* round the loop twice
C20_Witness ==
    /\ Done
    /\ f.overflow
    /\ f.retErr = nil
    /\ Len(f.log) = 2
    /\ Consumed = Len(hist.input)
    /\ Consumed >= 8
    /\ wire \in ShortInputs

====
